---- MODULE Spec2Model ----
(***************************************************************************)
(* A model of the assertion library in src/src/index.ts (lines 1-296; the  *)
(* later copies in the file and src/unnamed/part_001 repeat the same       *)
(* control flow).  Every assertion is a synchronous call that either       *)
(* returns or throws; the model runs one call per step of a test body and  *)
(* records the call, its completion and what the structural-equality       *)
(* helper did.                                                             *)
(*                                                                         *)
(* JavaScript values are records [t, n, s]: t is the type tag, n the       *)
(* number / boolean / object identity, s the characters of a string.       *)
(* Objects live in `heap`, so that two containers with the same content    *)
(* are different values and a container can refer to itself.               *)
(***************************************************************************)
EXTENDS Integers, Sequences, FiniteSets, TLC

VARIABLES heap, pc, call, outcome, trace, earlier

vars == <<heap, pc, call, outcome, trace, earlier>>

-----------------------------------------------------------------------------
(* Bounds *)

\* Frames the engine's call stack holds before it throws RangeError.
MaxStack == 6

\* Properties in a generated heap, summed over its objects.
MaxProps == 3

\* Calls counted between a remembered call and a later one.
MaxBetween == 2

-----------------------------------------------------------------------------
(* JavaScript values *)

Val(t, n, s) == [t |-> t, n |-> n, s |-> s]

Undefined == Val("undefined", 0, <<>>)

Null == Val("null", 0, <<>>)

Bool(b) == Val("boolean", IF b THEN 1 ELSE 0, <<>>)

Num(k) == Val("number", k, <<>>)

NaN == Val("NaN", 0, <<>>)

Str(s) == Val("string", 0, s)

Ref(i) == Val("object", i, <<>>)

\* A regular expression, by the characters of its source.
RegExp(source) == Val("RegExp", 0, source)

IsPrimitive(v) == v.t \notin {"object", "RegExp"}

\* a === b: identity for objects, value for primitives, never for NaN.
StrictEquals(a, b) == a.t # "NaN" /\ a = b

Max(a, b) == IF a >= b THEN a ELSE b

-----------------------------------------------------------------------------
(* Objects *)

Keys == {"a", "b"}

ObjIds == {1, 2, 3}

Prop(k, v) == [k |-> k, v |-> v]

\* An object: its class, its own enumerable properties in insertion order,
\* and the entry count of a Map or Set.
Obj(kind, props, size) == [kind |-> kind, props |-> props, size |-> size]

PlainObject(props) == Obj("Object", props, 0)

IndexKeys == <<"0", "1", "2", "3">>

\* Object.keys(v): throws for undefined and null (KeysThrows), the indices
\* of a string, the own enumerable keys of an object, nothing for the rest.
KeysThrows(v) == v.t \in {"undefined", "null"}

OwnKeys(h, v) ==
  CASE v.t = "string" -> [i \in 1..Len(v.s) |-> IndexKeys[i]]
    [] v.t = "object" -> [i \in 1..Len(h[v.n].props) |-> h[v.n].props[i].k]
    [] OTHER -> <<>>

\* key in v, for an object v.
HasKey(h, key, v) == \E i \in 1..Len(h[v.n].props) : h[v.n].props[i].k = key

\* v[key], for a key OwnKeys(h, v) lists.
Get(h, v, key) ==
  IF v.t = "string"
  THEN Str(<<v.s[CHOOSE i \in 1..Len(v.s) : IndexKeys[i] = key]>>)
  ELSE h[v.n].props[CHOOSE i \in 1..Len(h[v.n].props) : h[v.n].props[i].k = key].v

-----------------------------------------------------------------------------
(* Completions: how a call ends *)

Return == [kind |-> "return", name |-> "", message |-> <<>>]

\* A statement that neither returned nor threw: control goes on to the next.
Normal == [kind |-> "normal", name |-> "", message |-> <<>>]

\* `first; next`: next runs only if first fell through.
Then(first, next) == IF first.kind = "normal" THEN next ELSE first

Throw(name, message) == [kind |-> "throw", name |-> name, message |-> message]

\* new Error(message).message: an omitted message leaves the empty string.
ErrorMessage(message) == IF message.t = "undefined" THEN <<>> ELSE message.s

\* `message || fallback`
Truthy(v) ==
  CASE v.t \in {"undefined", "null", "NaN"} -> FALSE
    [] v.t \in {"boolean", "number"} -> v.n # 0
    [] v.t = "string" -> v.s # <<>>
    [] OTHER -> TRUE

\* fail with a default in place of a falsy message.
failWithDefault(message) ==
  Throw("Error", IF Truthy(message) THEN message.s ELSE <<"Assertion failed">>)

\* fail that words its failure differently once calls have gone by.
failCounting(message) ==
  Throw("Error", IF earlier.between > 0 THEN <<"again">> ELSE ErrorMessage(message))

fail(message) == Throw("Error", ErrorMessage(message))

-----------------------------------------------------------------------------
(* Structural equality *)

\* What one run of the helper did: its value ("true", "false", or the error
\* it threw), the Object.keys evaluations, and the deepest frame it reached.
Result(value, keys, depth) == [value |-> value, keys |-> keys, depth |-> depth]

RECURSIVE _deepEqual(_, _, _, _)
RECURSIVE forIn(_, _, _, _, _, _)

\* The loop recursing on obj1 itself in place of obj1[key].
forInSameLeft(h, obj1, obj2, i, stack, acc) ==
  IF i > Len(OwnKeys(h, obj1)) THEN acc
  ELSE LET key == OwnKeys(h, obj1)[i] IN
    IF IsPrimitive(obj2) THEN [acc EXCEPT !.value = "TypeError"]
    ELSE IF ~HasKey(h, key, obj2) THEN [acc EXCEPT !.value = "false"]
    ELSE LET r == _deepEqual(h, obj1, Get(h, obj2, key), stack - 1)
             acc2 == Result(r.value, acc.keys + r.keys, Max(acc.depth, 1 + r.depth))
         IN IF r.value # "true" THEN acc2
            ELSE forIn(h, obj1, obj2, i + 1, stack, acc2)

forIn(h, obj1, obj2, i, stack, acc) ==
  IF i > Len(OwnKeys(h, obj1)) THEN acc
  ELSE LET key == OwnKeys(h, obj1)[i] IN
    IF IsPrimitive(obj2) THEN [acc EXCEPT !.value = "TypeError"]
    ELSE IF ~HasKey(h, key, obj2) THEN [acc EXCEPT !.value = "false"]
    ELSE LET r == _deepEqual(h, Get(h, obj1, key), Get(h, obj2, key), stack - 1)
             acc2 == Result(r.value, acc.keys + r.keys, Max(acc.depth, 1 + r.depth))
         IN IF r.value # "true" THEN acc2
            ELSE forIn(h, obj1, obj2, i + 1, stack, acc2)

\* The helper without its comparison of the two key counts.
deepEqualNoCount(h, obj1, obj2, stack) ==
  IF stack = 0 THEN Result("RangeError", 0, 0)
  ELSE IF StrictEquals(obj1, obj2) THEN Result("true", 0, 1)
  ELSE IF KeysThrows(obj1) THEN Result("TypeError", 1, 1)
  ELSE IF KeysThrows(obj2) THEN Result("TypeError", 2, 1)
  ELSE forIn(h, obj1, obj2, 1, stack, Result("true", 2, 1))

\* The helper without its identity test.
deepEqualNoIdentity(h, obj1, obj2, stack) ==
  IF stack = 0 THEN Result("RangeError", 0, 0)
  ELSE IF KeysThrows(obj1) THEN Result("TypeError", 1, 1)
  ELSE IF KeysThrows(obj2) THEN Result("TypeError", 2, 1)
  ELSE IF Len(OwnKeys(h, obj1)) # Len(OwnKeys(h, obj2)) THEN Result("false", 2, 1)
  ELSE forIn(h, obj1, obj2, 1, stack, Result("true", 2, 1))

_deepEqual(h, obj1, obj2, stack) ==
  IF stack = 0 THEN Result("RangeError", 0, 0)
  ELSE IF StrictEquals(obj1, obj2) THEN Result("true", 0, 1)
  ELSE IF KeysThrows(obj1) THEN Result("TypeError", 1, 1)
  ELSE IF KeysThrows(obj2) THEN Result("TypeError", 2, 1)
  ELSE IF Len(OwnKeys(h, obj1)) # Len(OwnKeys(h, obj2)) THEN Result("false", 2, 1)
  ELSE forIn(h, obj1, obj2, 1, stack, Result("true", 2, 1))

\* How a call of the helper from an assertion ends, given the branch the
\* assertion takes when the helper returns.
Propagate(r, onTrue, onFalse) ==
  CASE r.value = "true" -> onTrue
    [] r.value = "false" -> onFalse
    [] OTHER -> Throw(r.value, <<r.value>>)

-----------------------------------------------------------------------------
(* Message text *)

RECURSIVE Join(_)
\* `${keys}` for a list of strings: its members separated by commas.
Join(keys) ==
  IF Len(keys) = 0 THEN <<>>
  ELSE IF Len(keys) = 1 THEN <<keys[1]>>
  ELSE <<keys[1], ",">> \o Join(Tail(keys))

\* `${v}` in a template literal; an array holds numbers.
Interpolate(h, v) ==
  CASE v.t = "string" -> v.s
    [] v.t = "number" /\ v.n >= 0 -> <<IndexKeys[v.n + 1]>>
    [] v.t = "number" /\ v.n < 0 -> <<"-", IndexKeys[1 - v.n]>>
    [] v.t = "boolean" -> IF v.n = 1 THEN <<"true">> ELSE <<"false">>
    [] v.t = "RegExp" -> <<"/">> \o v.s \o <<"/">>
    [] v.t = "object" /\ h[v.n].kind = "Array" ->
         Join([i \in 1..Len(h[v.n].props) |-> IndexKeys[h[v.n].props[i].v.n + 1]])
    [] v.t = "object" /\ h[v.n].kind # "Array" -> <<"[object ", h[v.n].kind, "]">>
    [] OTHER -> <<v.t>>

\* text contains sub as a run of consecutive characters.
Contains(text, sub) ==
  \E i \in 0..(Len(text) - Len(sub)) : SubSeq(text, i + 1, i + Len(sub)) = sub

\* text.match(errorLike) finds a match.  A string is compiled as the source
\* of a regular expression, an omitted pattern as the empty one.  The
\* sources used here are `.*`, `^...$` around literal characters, and
\* literal characters.
Matches(text, errorLike) ==
  LET src == errorLike.s IN
  CASE src = <<".", "*">> -> TRUE
    [] Len(src) >= 2 /\ src[1] = "^" /\ src[Len(src)] = "$" ->
         text = SubSeq(src, 2, Len(src) - 1)
    [] OTHER -> Contains(text, src)

-----------------------------------------------------------------------------
(* Assertions *)

deepEqual(h, actual, expected, message) ==
  Propagate(_deepEqual(h, actual, expected, MaxStack),
            Return,
            fail(IF Truthy(message) THEN message
                 ELSE Str(<<"Expected ">> \o Interpolate(h, expected)
                          \o <<" to be equal ">> \o Interpolate(h, actual))))

\* notDeepEqual that passes when the helper throws.
notDeepEqualCatches(h, actual, expected, message) ==
  IF _deepEqual(h, actual, expected, MaxStack).value = "true"
  THEN fail(IF Truthy(message) THEN message
            ELSE Str(<<"Expected ">> \o Interpolate(h, expected)
                     \o <<" to be equal ">> \o Interpolate(h, actual)))
  ELSE Return

notDeepEqual(h, actual, expected, message) ==
  Propagate(_deepEqual(h, actual, expected, MaxStack),
            fail(IF Truthy(message) THEN message
                 ELSE Str(<<"Expected ">> \o Interpolate(h, expected)
                          \o <<" to be equal ">> \o Interpolate(h, actual))),
            Return)

\* target.length of a string, an array or a NodeList.
Length(h, target) ==
  IF target.t = "string" THEN Len(target.s) ELSE Len(h[target.n].props)

\* v instanceof the class `kind`.
InstanceOf(h, v, kind) == v.t = "object" /\ h[v.n].kind = kind

InstanceOfError(error) == error.name \in {"Error", "TypeError", "RangeError"}

\* typeof, with "null" for null; NaN is a number and a RegExp an object.
TypeOf(v) ==
  CASE v.t = "NaN" -> "number"
    [] v.t = "RegExp" -> "object"
    [] OTHER -> v.t

\* Number(v) for a primitive: the empty string is 0, one digit is its
\* number, any other text is NaN.
ToNumber(v) ==
  CASE v.t = "number" -> v
    [] v.t = "boolean" -> Num(v.n)
    [] v.t = "null" -> Num(0)
    [] v.t = "string" /\ v.s = <<>> -> Num(0)
    [] v.t = "string" /\ Len(v.s) = 1 /\ (\E d \in 1..Len(IndexKeys) : IndexKeys[d] = v.s[1]) ->
         Num((CHOOSE d \in 1..Len(IndexKeys) : IndexKeys[d] = v.s[1]) - 1)
    [] OTHER -> NaN

\* a == b.  Same type: as ===.  null and undefined equal each other and
\* nothing else.  Otherwise an object is converted to its string, and
\* unless both sides are then strings both are converted to numbers.
LooseEquals(h, a, b) ==
  LET ToPrimitive(v) == IF TypeOf(v) = "object" THEN Str(Interpolate(h, v)) ELSE v
      pa == ToPrimitive(a)
      pb == ToPrimitive(b)
  IN CASE TypeOf(a) = TypeOf(b) -> StrictEquals(a, b)
       [] TypeOf(a) # TypeOf(b) /\ {TypeOf(a), TypeOf(b)} = {"undefined", "null"} -> TRUE
       [] TypeOf(a) # TypeOf(b) /\ {TypeOf(a), TypeOf(b)} # {"undefined", "null"}
            /\ {TypeOf(a), TypeOf(b)} \cap {"undefined", "null"} # {} -> FALSE
       [] OTHER -> IF pa.t = "string" /\ pb.t = "string" THEN pa.s = pb.s
                   ELSE StrictEquals(ToNumber(pa), ToNumber(pb))

assert(h, condition, message) ==
  Then(IF Truthy(condition) THEN Return ELSE Normal,
       fail(IF Truthy(message) THEN message
            ELSE Str(<<"Expected ">> \o Interpolate(h, condition) \o <<" to be truthy">>)))

\* isOk that only rejects undefined and null.
isOkNotNullish(h, thing, message) ==
  Then(IF thing.t \notin {"undefined", "null"} THEN Return ELSE Normal,
       fail(IF Truthy(message) THEN message
            ELSE Str(<<"Expected ">> \o Interpolate(h, thing) \o <<" to be ok">>)))

isOk(h, thing, message) ==
  Then(IF Truthy(thing) THEN Return ELSE Normal,
       fail(IF Truthy(message) THEN message
            ELSE Str(<<"Expected ">> \o Interpolate(h, thing) \o <<" to be ok">>)))

isNotOk(h, thing, message) ==
  Then(IF ~Truthy(thing) THEN Return ELSE Normal,
       fail(IF Truthy(message) THEN message
            ELSE Str(<<"Expected ">> \o Interpolate(h, thing) \o <<" to be not ok">>)))

equal(h, actual, expected, message) ==
  Then(IF LooseEquals(h, actual, expected) THEN Return ELSE Normal,
       fail(IF Truthy(message) THEN message
            ELSE Str(<<"Expected ">> \o Interpolate(h, actual) \o <<" and ">>
                     \o Interpolate(h, expected) \o <<" to be equal">>)))

\* notEqual with !== in place of !=.
notEqualStrict(h, actual, expected, message) ==
  Then(IF ~StrictEquals(actual, expected) THEN Return ELSE Normal,
       fail(IF Truthy(message) THEN message
            ELSE Str(<<"Expected ">> \o Interpolate(h, actual) \o <<" and ">>
                     \o Interpolate(h, expected) \o <<" to be not equal">>)))

notEqual(h, actual, expected, message) ==
  Then(IF ~LooseEquals(h, actual, expected) THEN Return ELSE Normal,
       fail(IF Truthy(message) THEN message
            ELSE Str(<<"Expected ">> \o Interpolate(h, actual) \o <<" and ">>
                     \o Interpolate(h, expected) \o <<" to be not equal">>)))

\* strictEqual with == in place of ===.
strictEqualLoose(h, actual, expected, message) ==
  Then(IF LooseEquals(h, actual, expected) THEN Return ELSE Normal,
       fail(IF Truthy(message) THEN message
            ELSE Str(<<"Expected ">> \o Interpolate(h, actual) \o <<" and ">>
                     \o Interpolate(h, expected) \o <<" to be strict equal">>)))

strictEqual(h, actual, expected, message) ==
  Then(IF StrictEquals(actual, expected) THEN Return ELSE Normal,
       fail(IF Truthy(message) THEN message
            ELSE Str(<<"Expected ">> \o Interpolate(h, actual) \o <<" and ">>
                     \o Interpolate(h, expected) \o <<" to be strict equal">>)))

notStrictEqual(h, actual, expected, message) ==
  Then(IF ~StrictEquals(actual, expected) THEN Return ELSE Normal,
       fail(IF Truthy(message) THEN message
            ELSE Str(<<"Expected ">> \o Interpolate(h, actual) \o <<" and ">>
                     \o Interpolate(h, expected) \o <<" to be not strict equal">>)))

\* The bound checks take numbers.
isAbove(h, valueToCheck, valueToBeAbove, message) ==
  Then(IF valueToCheck.n > valueToBeAbove.n THEN Return ELSE Normal,
       fail(IF Truthy(message) THEN message
            ELSE Str(<<"Expected ">> \o Interpolate(h, valueToCheck)
                     \o <<" to be higher than ">> \o Interpolate(h, valueToBeAbove))))

\* isAtLeast with > in place of >=.
isAtLeastStrict(h, valueToCheck, valueToBeAtLeast, message) ==
  Then(IF valueToCheck.n > valueToBeAtLeast.n THEN Return ELSE Normal,
       fail(IF Truthy(message) THEN message
            ELSE Str(<<"Expected ">> \o Interpolate(h, valueToCheck)
                     \o <<" to be lower than ">> \o Interpolate(h, valueToBeAtLeast))))

isAtLeast(h, valueToCheck, valueToBeAtLeast, message) ==
  Then(IF valueToCheck.n >= valueToBeAtLeast.n THEN Return ELSE Normal,
       fail(IF Truthy(message) THEN message
            ELSE Str(<<"Expected ">> \o Interpolate(h, valueToCheck)
                     \o <<" to be lower than ">> \o Interpolate(h, valueToBeAtLeast))))

isBelow(h, valueToCheck, valueToBeBelow, message) ==
  Then(IF valueToCheck.n < valueToBeBelow.n THEN Return ELSE Normal,
       fail(IF Truthy(message) THEN message
            ELSE Str(<<"Expected ">> \o Interpolate(h, valueToCheck)
                     \o <<" to be lower than ">> \o Interpolate(h, valueToBeBelow))))

\* isTrue with a truthiness test in place of === true.
isTrueTruthy(h, value, message) ==
  Then(IF Truthy(value) THEN Return ELSE Normal,
       fail(IF Truthy(message) THEN message
            ELSE Str(<<"Expected ">> \o Interpolate(h, value) \o <<" to be true">>)))

isTrue(h, value, message) ==
  Then(IF StrictEquals(value, Bool(TRUE)) THEN Return ELSE Normal,
       fail(IF Truthy(message) THEN message
            ELSE Str(<<"Expected ">> \o Interpolate(h, value) \o <<" to be true">>)))

isFalse(h, value, message) ==
  Then(IF StrictEquals(value, Bool(FALSE)) THEN Return ELSE Normal,
       fail(IF Truthy(message) THEN message
            ELSE Str(<<"Expected ">> \o Interpolate(h, value) \o <<" to be false">>)))

isNull(h, value, message) ==
  Then(IF StrictEquals(value, Null) THEN Return ELSE Normal,
       fail(IF Truthy(message) THEN message
            ELSE Str(<<"Expected ">> \o Interpolate(h, value) \o <<" to be null">>)))

isNotNull(h, value, message) ==
  Then(IF ~StrictEquals(value, Null) THEN Return ELSE Normal,
       fail(IF Truthy(message) THEN message
            ELSE Str(<<"Expected ">> \o Interpolate(h, value) \o <<" to be not null">>)))

isUndefined(h, value, message) ==
  Then(IF StrictEquals(value, Undefined) THEN Return ELSE Normal,
       fail(IF Truthy(message) THEN message
            ELSE Str(<<"Expected ">> \o Interpolate(h, value) \o <<" to be undefined">>)))

\* construct is a class, by its name; every object is an instance of Object.
instanceOf(h, value, construct, message) ==
  Then(IF value.t = "object" /\ (construct = "Object" \/ InstanceOf(h, value, construct))
       THEN Return ELSE Normal,
       fail(IF Truthy(message) THEN message
            ELSE Str(<<"Expected ">> \o Interpolate(h, value)
                     \o <<" to be a instance of ">> \o <<"class ", construct>>)))

\* haystack.includes(needle), for an array: some element is the needle,
\* NaN counting as itself.
Includes(h, haystack, needle) ==
  \E i \in 1..Len(h[haystack.n].props) : h[haystack.n].props[i].v = needle

include(h, haystack, needle, message) ==
  Then(IF Includes(h, haystack, needle) THEN Return ELSE Normal,
       fail(IF Truthy(message) THEN message
            ELSE Str(<<"Expected ">> \o Interpolate(h, haystack)
                     \o <<" to include ">> \o Interpolate(h, needle))))

notInclude(h, haystack, needle, message) ==
  Then(IF ~Includes(h, haystack, needle) THEN Return ELSE Normal,
       fail(IF Truthy(message) THEN message
            ELSE Str(<<"Expected ">> \o Interpolate(h, haystack)
                     \o <<" to not include ">> \o Interpolate(h, needle))))

match(h, value, regexp, message) ==
  Then(IF Matches(value.s, regexp) THEN Return ELSE Normal,
       fail(IF Truthy(message) THEN message
            ELSE Str(<<"Expected ">> \o Interpolate(h, value)
                     \o <<" to match ">> \o Interpolate(h, regexp))))

\* Object.keys(thing) throws for a thing that is undefined or null.
hasAllKeys(h, thing, keys, message) ==
  IF KeysThrows(thing) THEN Throw("TypeError", <<"TypeError">>)
  ELSE LET objectKeys == OwnKeys(h, thing)
           allKeys == /\ Len(objectKeys) = Len(keys)
                      /\ \A i \in 1..Len(keys) :
                           \E j \in 1..Len(objectKeys) : objectKeys[j] = keys[i]
       IN Then(IF allKeys THEN Return ELSE Normal,
               fail(IF Truthy(message) THEN message
                    ELSE Str(<<"Expected ">> \o Join(objectKeys) \o <<" to include ">>
                             \o Join(keys) \o <<" and only those keys">>)))

\* containsAllKeys with `some` in place of `every`.
containsSomeKey(h, thing, keys, message) ==
  IF Len(keys) > 0 /\ KeysThrows(thing) THEN Throw("TypeError", <<"TypeError">>)
  ELSE LET allKeys == \E i \in 1..Len(keys) :
                        \E j \in 1..Len(OwnKeys(h, thing)) :
                          OwnKeys(h, thing)[j] = keys[i]
       IN Then(IF allKeys THEN Return ELSE Normal,
               fail(IF Truthy(message) THEN message
                    ELSE Str(<<"Expected ">> \o Join(OwnKeys(h, thing))
                             \o <<" to include all the keys: ">> \o Join(keys))))

\* Object.keys(thing) is evaluated once for each member of keys.
containsAllKeys(h, thing, keys, message) ==
  IF Len(keys) > 0 /\ KeysThrows(thing) THEN Throw("TypeError", <<"TypeError">>)
  ELSE LET allKeys == \A i \in 1..Len(keys) :
                        \E j \in 1..Len(OwnKeys(h, thing)) :
                          OwnKeys(h, thing)[j] = keys[i]
       IN Then(IF allKeys THEN Return ELSE Normal,
               fail(IF Truthy(message) THEN message
                    ELSE Str(<<"Expected ">> \o Join(OwnKeys(h, thing))
                             \o <<" to include all the keys: ">> \o Join(keys))))

\* What calling fn() does: return, call fail(arg), or throw the value arg,
\* which is no Error.
RunFn(fn) ==
  CASE fn.does = "return" -> Normal
    [] fn.does = "fail" -> fail(fn.arg)
    [] fn.does = "throw" -> Throw("NonError", <<>>)

\* throws whose catch block swallows the mismatch, so that control reaches
\* the statement after the try.
throwsSwallowsMismatch(h, fn, errorLike) ==
  LET error == RunFn(fn)
      tryCatch ==
        IF error.kind = "throw"
        THEN Then(IF ~InstanceOfError(error) THEN Return ELSE Normal,
                  IF Matches(error.message, errorLike) THEN Return ELSE Normal)
        ELSE Normal
  IN Then(tryCatch, fail(Str(<<"Expected function to throw">>)))

\* throws without the statement after the try.
throwsNoFinalFail(h, fn, errorLike) ==
  LET error == RunFn(fn)
      tryCatch ==
        IF error.kind = "throw"
        THEN Then(IF ~InstanceOfError(error) THEN Return ELSE Normal,
             Then(IF Matches(error.message, errorLike) THEN Return ELSE Normal,
                  fail(Str(<<"Expected error message ">> \o error.message
                           \o <<" to match ">> \o Interpolate(h, errorLike)))))
        ELSE Normal
  IN Then(tryCatch, Return)

\* throws without the instanceof test.
throwsNoInstanceOf(h, fn, errorLike) ==
  LET error == RunFn(fn)
      tryCatch ==
        IF error.kind = "throw"
        THEN Then(IF Matches(error.message, errorLike) THEN Return ELSE Normal,
                  fail(Str(<<"Expected error message ">> \o error.message
                           \o <<" to match ">> \o Interpolate(h, errorLike))))
        ELSE Normal
  IN Then(tryCatch, fail(Str(<<"Expected function to throw">>)))

\* throws without the try: what fn raises reaches the caller.
throwsNoCatch(h, fn, errorLike) ==
  Then(RunFn(fn), fail(Str(<<"Expected function to throw">>)))

throws(h, fn, errorLike) ==
  LET error == RunFn(fn)
      tryCatch ==
        IF error.kind = "throw"
        THEN Then(IF ~InstanceOfError(error) THEN Return ELSE Normal,
             Then(IF Matches(error.message, errorLike) THEN Return ELSE Normal,
                  fail(Str(<<"Expected error message ">> \o error.message
                           \o <<" to match ">> \o Interpolate(h, errorLike)))))
        ELSE Normal
  IN Then(tryCatch, fail(Str(<<"Expected function to throw">>)))

\* The statements one call of throws executes, in order.
throwsSteps(fn, errorLike) ==
  LET error == RunFn(fn)
      catch ==
        IF ~InstanceOfError(error) THEN <<"instanceof", "return">>
        ELSE IF Matches(error.message, errorLike) THEN <<"instanceof", "match", "return">>
        ELSE <<"instanceof", "match", "fail mismatch">>
  IN [steps |-> <<"fn()">> \o (IF error.kind = "throw" THEN <<"catch">> \o catch
                               ELSE <<"fail no throw">>)]

\* isEmpty without the branch for Map and Set.
isEmptyNoSize(h, target) ==
  Then(IF \/ target.t = "string"
          \/ InstanceOf(h, target, "Array")
          \/ InstanceOf(h, target, "NodeList")
       THEN Then(IF Length(h, target) = 0 THEN Return ELSE Normal,
                 fail(Str(<<"Expected ">> \o Interpolate(h, target) \o <<" to be empty">>)))
       ELSE Normal,
       fail(Str(<<"Didn't know how to check if ">> \o Interpolate(h, target)
                \o <<" is empty">>)))

\* isEmpty whose passing tests do not return.
isEmptyFallsThrough(h, target) ==
  Then(IF \/ target.t = "string"
          \/ InstanceOf(h, target, "Array")
          \/ InstanceOf(h, target, "NodeList")
       THEN IF Length(h, target) = 0 THEN Normal
            ELSE fail(Str(<<"Expected ">> \o Interpolate(h, target) \o <<" to be empty">>))
       ELSE IF InstanceOf(h, target, "Map") \/ InstanceOf(h, target, "Set")
       THEN IF h[target.n].size = 0 THEN Normal
            ELSE fail(Str(<<"Expected ">> \o Interpolate(h, target) \o <<" to be empty">>))
       ELSE Normal,
       fail(Str(<<"Didn't know how to check if ">> \o Interpolate(h, target)
                \o <<" is empty">>)))

isEmpty(h, target) ==
  Then(IF \/ target.t = "string"
          \/ InstanceOf(h, target, "Array")
          \/ InstanceOf(h, target, "NodeList")
       THEN Then(IF Length(h, target) = 0 THEN Return ELSE Normal,
                 fail(Str(<<"Expected ">> \o Interpolate(h, target) \o <<" to be empty">>)))
       ELSE IF InstanceOf(h, target, "Map") \/ InstanceOf(h, target, "Set")
       THEN Then(IF h[target.n].size = 0 THEN Return ELSE Normal,
                 fail(Str(<<"Expected ">> \o Interpolate(h, target) \o <<" to be empty">>)))
       ELSE Normal,
       fail(Str(<<"Didn't know how to check if ">> \o Interpolate(h, target)
                \o <<" is empty">>)))

\* isNotEmpty that passes every target it has no test for.
isNotEmptyPassesOther(h, target) ==
  IF \/ target.t = "string"
     \/ InstanceOf(h, target, "Array")
     \/ InstanceOf(h, target, "NodeList")
  THEN Then(IF Length(h, target) # 0 THEN Return ELSE Normal,
            fail(Str(<<"Expected ">> \o Interpolate(h, target) \o <<" to be not empty">>)))
  ELSE IF InstanceOf(h, target, "Map") \/ InstanceOf(h, target, "Set")
  THEN Then(IF h[target.n].size # 0 THEN Return ELSE Normal,
            fail(Str(<<"Expected ">> \o Interpolate(h, target) \o <<" to be not empty">>)))
  ELSE Return

isNotEmpty(h, target) ==
  Then(IF \/ target.t = "string"
          \/ InstanceOf(h, target, "Array")
          \/ InstanceOf(h, target, "NodeList")
       THEN Then(IF Length(h, target) # 0 THEN Return ELSE Normal,
                 fail(Str(<<"Expected ">> \o Interpolate(h, target) \o <<" to be not empty">>)))
       ELSE IF InstanceOf(h, target, "Map") \/ InstanceOf(h, target, "Set")
       THEN Then(IF h[target.n].size # 0 THEN Return ELSE Normal,
                 fail(Str(<<"Expected ">> \o Interpolate(h, target) \o <<" to be not empty">>)))
       ELSE Normal,
       fail(Str(<<"Didn't know how to check if ">> \o Interpolate(h, target)
                \o <<" is not empty">>)))

-----------------------------------------------------------------------------
(* Inputs *)

\* Values a generated heap stores in a property.
HeapVals == {Num(1), Num(2)} \cup {Ref(i) : i \in ObjIds}

PropSeqs ==
  {<<>>}
  \cup {<<Prop(k, v)>> : k \in Keys, v \in HeapVals}
  \cup {ps \in {<<Prop(k1, v1), Prop(k2, v2)>> :
                    k1 \in Keys, k2 \in Keys, v1 \in HeapVals, v2 \in HeapVals} :
            ps[1].k # ps[2].k}

RECURSIVE SumProps(_, _)
SumProps(h, ids) ==
  IF ids = {} THEN 0
  ELSE LET i == CHOOSE j \in ids : TRUE
       IN Len(h[i].props) + SumProps(h, ids \ {i})

Heaps ==
  {h \in [ObjIds -> {PlainObject(p) : p \in PropSeqs}] :
     SumProps(h, ObjIds) <= MaxProps}

\* Containers that are not plain objects: arrays (whose own keys are their
\* indices), a Map and a function (which have no own enumerable key).
NonPlainObjects ==
  { Obj("Array", <<>>, 0),
    Obj("Array", <<Prop("0", Num(1)), Prop("1", Num(2))>>, 0),
    Obj("Map", <<>>, 1),
    Obj("Function", <<>>, 0) }

NonPlainHeaps == [ObjIds -> NonPlainObjects]

\* Plain objects with a string or null for a leaf: {a: "x"} against
\* {a: {a: 1}}, and {a: null, b: 1} against {b: "x", a: 1}.
LeafHeaps ==
  { << PlainObject(<<Prop("a", Str(<<"x">>))>>),
       PlainObject(<<Prop("a", Ref(3))>>),
       PlainObject(<<Prop("a", Num(1))>>) >>,
    << PlainObject(<<Prop("a", Null), Prop("b", Num(1))>>),
       PlainObject(<<Prop("b", Str(<<"x">>)), Prop("a", Num(1))>>),
       PlainObject(<<>>) >> }

EmptyHeap == [i \in ObjIds |-> PlainObject(<<>>)]

DeepPrims == {Undefined, Null, Num(1), Num(2), NaN, Str(<<>>), Str(<<"x">>)}

\* The argument pairs tried under heap h.  Object identities are
\* interchangeable, so a container argument is object 1 and a second one is
\* object 2; a pair of primitives reads no object and is tried under the
\* heap whose objects are all empty.
DeepPairs(h) ==
  {<<Ref(1), Ref(1)>>, <<Ref(1), Ref(2)>>}
  \cup {<<Ref(1), p>> : p \in DeepPrims}
  \cup {<<p, Ref(1)>> : p \in DeepPrims}
  \cup IF h = EmptyHeap THEN DeepPrims \X DeepPrims ELSE {}

-----------------------------------------------------------------------------
(* The test body: one assertion call per step *)

NoCall == [op |-> "none"]

NoTrace == Result("none", 0, 0)

\* No earlier call is being remembered.
NoEarlier == [call |-> NoCall, outcome |-> Return, between |-> 0]

deepEqualCall(args, message) ==
  /\ pc = "ready"
  /\ pc' = "called"
  /\ call' = [op |-> "deepEqual", actual |-> args[1], expected |-> args[2],
              message |-> message]
  /\ outcome' = deepEqual(heap, args[1], args[2], message)
  /\ trace' = _deepEqual(heap, args[1], args[2], MaxStack)
  /\ UNCHANGED <<heap, earlier>>

notDeepEqualCall(args, message) ==
  /\ pc = "ready"
  /\ pc' = "called"
  /\ call' = [op |-> "notDeepEqual", actual |-> args[1], expected |-> args[2],
              message |-> message]
  /\ outcome' = notDeepEqual(heap, args[1], args[2], message)
  /\ trace' = _deepEqual(heap, args[1], args[2], MaxStack)
  /\ UNCHANGED <<heap, earlier>>

\* The caller catches the failure or sees the return, and goes on.
NextCall ==
  /\ pc = "called"
  /\ pc' = "ready"
  /\ call' = NoCall
  /\ outcome' = Return
  /\ trace' = NoTrace
  /\ earlier' = IF earlier = NoEarlier \/ earlier.between = MaxBetween THEN earlier
                ELSE [earlier EXCEPT !.between = earlier.between + 1]
  /\ UNCHANGED heap

\* The caller keeps what the call did, to compare it with a later call.
Remember ==
  /\ pc = "called"
  /\ pc' = "ready"
  /\ earlier' = [call |-> call, outcome |-> outcome, between |-> 0]
  /\ call' = NoCall
  /\ outcome' = Return
  /\ trace' = NoTrace
  /\ UNCHANGED heap

InitDeep ==
  /\ heap \in Heaps \cup NonPlainHeaps \cup LeafHeaps
  /\ pc = "ready"
  /\ call = NoCall
  /\ outcome = Return
  /\ trace = NoTrace
  /\ earlier = NoEarlier

NextDeep ==
  \/ \E args \in DeepPairs(heap) : deepEqualCall(args, Undefined)
  \/ \E args \in DeepPairs(heap) : notDeepEqualCall(args, Undefined)
  \/ NextCall

SpecDeep == InitDeep /\ [][NextDeep]_vars

-----------------------------------------------------------------------------
(* A test body over a fixed heap *)

\* Members of a key list handed to hasAllKeys or containsAllKeys.
MaxKeys == 2

SampleHeap ==
  << PlainObject(<<>>),
     PlainObject(<<Prop("a", Num(1))>>),
     PlainObject(<<Prop("b", Num(1))>>),
     PlainObject(<<Prop("a", Num(1)), Prop("b", Num(2))>>),
     PlainObject(<<Prop("b", Num(2)), Prop("a", Num(1))>>),
     Obj("Array", <<>>, 0),
     Obj("Array", <<Prop("0", Num(1)), Prop("1", Num(2))>>, 0),
     Obj("Map", <<>>, 0),
     Obj("Map", <<>>, 1),
     Obj("Set", <<>>, 0),
     Obj("Set", <<>>, 2),
     Obj("NodeList", <<>>, 0),
     Obj("NodeList", <<Prop("0", Ref(1))>>, 0),
     Obj("Function", <<>>, 0) >>

Boom == <<"b", "o", "o", "m">>

Messages ==
  {Undefined, Str(<<>>), Str(Boom), Str(<<"n", "o", "p", "e">>),
   Str(<<"This was a really bad thing">>)}

Patterns ==
  {Undefined, Str(<<>>), Str(Boom), Str(<<"o", "o">>), Str(<<"n", "o", "p", "e">>),
   RegExp(<<".", "*">>), RegExp(<<"^", "o", "o", "$">>), RegExp(<<"^">> \o Boom \o <<"$">>)}

Fn(does, arg) == [does |-> does, arg |-> arg]

Fns ==
  {Fn("return", Undefined)}
  \cup {Fn("fail", m) : m \in Messages}
  \cup {Fn("throw", v) : v \in {Undefined, Null, Num(1), Str(Boom), Ref(2)}}

Things == {Ref(i) : i \in 1..5} \cup {Undefined, Null}

KeyLists == UNION {[1..n -> Keys] : n \in 0..MaxKeys}

Targets ==
  {Ref(i) : i \in DOMAIN SampleHeap}
  \cup {Str(<<>>), Str(<<"x">>), Str(Boom), Undefined, Null, Num(0), Num(1), Bool(FALSE)}

\* Values of every type, among them a number and the string spelling it.
Values ==
  {Undefined, Null, Bool(TRUE), Bool(FALSE), Num(0), Num(1), Num(2), NaN,
   Str(<<>>), Str(<<"1">>), Str(<<"x">>), Ref(1), Ref(2), Ref(6), Ref(7)}

Numbers == {-1, 0, 1, 2}

Constructs == {"Object", "Array", "Map"}

Haystacks == {Ref(6), Ref(7)}

Needles == {Num(1), Num(0), NaN, Str(<<"1">>)}

Texts == {Str(<<>>), Str(Boom), Str(<<"o", "o">>)}

failCall(message) ==
  /\ pc = "ready"
  /\ pc' = "called"
  /\ call' = [op |-> "fail", message |-> message]
  /\ outcome' = fail(message)
  /\ trace' = NoTrace
  /\ UNCHANGED <<heap, earlier>>

\* throws, isEmpty and isNotEmpty declare no message parameter: a message
\* passed after their arguments is dropped.
throwsCall(fn, errorLike, message) ==
  /\ pc = "ready"
  /\ pc' = "called"
  /\ call' = [op |-> "throws", fn |-> fn, errorLike |-> errorLike,
              message |-> message]
  /\ outcome' = throws(heap, fn, errorLike)
  /\ trace' = throwsSteps(fn, errorLike)
  /\ UNCHANGED <<heap, earlier>>

hasAllKeysCall(thing, keys, message) ==
  /\ pc = "ready"
  /\ pc' = "called"
  /\ call' = [op |-> "hasAllKeys", thing |-> thing, keys |-> keys,
              message |-> message]
  /\ outcome' = hasAllKeys(heap, thing, keys, message)
  /\ trace' = NoTrace
  /\ UNCHANGED <<heap, earlier>>

containsAllKeysCall(thing, keys, message) ==
  /\ pc = "ready"
  /\ pc' = "called"
  /\ call' = [op |-> "containsAllKeys", thing |-> thing, keys |-> keys,
              message |-> message]
  /\ outcome' = containsAllKeys(heap, thing, keys, message)
  /\ trace' = NoTrace
  /\ UNCHANGED <<heap, earlier>>

isEmptyCall(target, message) ==
  /\ pc = "ready"
  /\ pc' = "called"
  /\ call' = [op |-> "isEmpty", target |-> target, message |-> message]
  /\ outcome' = isEmpty(heap, target)
  /\ trace' = NoTrace
  /\ UNCHANGED <<heap, earlier>>

isNotEmptyCall(target, message) ==
  /\ pc = "ready"
  /\ pc' = "called"
  /\ call' = [op |-> "isNotEmpty", target |-> target, message |-> message]
  /\ outcome' = isNotEmpty(heap, target)
  /\ trace' = NoTrace
  /\ UNCHANGED <<heap, earlier>>

assertCall(condition, message) ==
  /\ pc = "ready"
  /\ pc' = "called"
  /\ call' = [op |-> "assert", value |-> condition, message |-> message]
  /\ outcome' = assert(heap, condition, message)
  /\ trace' = NoTrace
  /\ UNCHANGED <<heap, earlier>>

isOkCall(thing, message) ==
  /\ pc = "ready"
  /\ pc' = "called"
  /\ call' = [op |-> "isOk", value |-> thing, message |-> message]
  /\ outcome' = isOk(heap, thing, message)
  /\ trace' = NoTrace
  /\ UNCHANGED <<heap, earlier>>

isNotOkCall(thing, message) ==
  /\ pc = "ready"
  /\ pc' = "called"
  /\ call' = [op |-> "isNotOk", value |-> thing, message |-> message]
  /\ outcome' = isNotOk(heap, thing, message)
  /\ trace' = NoTrace
  /\ UNCHANGED <<heap, earlier>>

equalCall(actual, expected, message) ==
  /\ pc = "ready"
  /\ pc' = "called"
  /\ call' = [op |-> "equal", actual |-> actual, expected |-> expected,
              message |-> message]
  /\ outcome' = equal(heap, actual, expected, message)
  /\ trace' = NoTrace
  /\ UNCHANGED <<heap, earlier>>

notEqualCall(actual, expected, message) ==
  /\ pc = "ready"
  /\ pc' = "called"
  /\ call' = [op |-> "notEqual", actual |-> actual, expected |-> expected,
              message |-> message]
  /\ outcome' = notEqual(heap, actual, expected, message)
  /\ trace' = NoTrace
  /\ UNCHANGED <<heap, earlier>>

strictEqualCall(actual, expected, message) ==
  /\ pc = "ready"
  /\ pc' = "called"
  /\ call' = [op |-> "strictEqual", actual |-> actual, expected |-> expected,
              message |-> message]
  /\ outcome' = strictEqual(heap, actual, expected, message)
  /\ trace' = NoTrace
  /\ UNCHANGED <<heap, earlier>>

notStrictEqualCall(actual, expected, message) ==
  /\ pc = "ready"
  /\ pc' = "called"
  /\ call' = [op |-> "notStrictEqual", actual |-> actual, expected |-> expected,
              message |-> message]
  /\ outcome' = notStrictEqual(heap, actual, expected, message)
  /\ trace' = NoTrace
  /\ UNCHANGED <<heap, earlier>>

isAboveCall(valueToCheck, valueToBeAbove, message) ==
  /\ pc = "ready"
  /\ pc' = "called"
  /\ call' = [op |-> "isAbove", x |-> valueToCheck, y |-> valueToBeAbove,
              message |-> message]
  /\ outcome' = isAbove(heap, Num(valueToCheck), Num(valueToBeAbove), message)
  /\ trace' = NoTrace
  /\ UNCHANGED <<heap, earlier>>

isAtLeastCall(valueToCheck, valueToBeAtLeast, message) ==
  /\ pc = "ready"
  /\ pc' = "called"
  /\ call' = [op |-> "isAtLeast", x |-> valueToCheck, y |-> valueToBeAtLeast,
              message |-> message]
  /\ outcome' = isAtLeast(heap, Num(valueToCheck), Num(valueToBeAtLeast), message)
  /\ trace' = NoTrace
  /\ UNCHANGED <<heap, earlier>>

isBelowCall(valueToCheck, valueToBeBelow, message) ==
  /\ pc = "ready"
  /\ pc' = "called"
  /\ call' = [op |-> "isBelow", x |-> valueToCheck, y |-> valueToBeBelow,
              message |-> message]
  /\ outcome' = isBelow(heap, Num(valueToCheck), Num(valueToBeBelow), message)
  /\ trace' = NoTrace
  /\ UNCHANGED <<heap, earlier>>

isTrueCall(value, message) ==
  /\ pc = "ready"
  /\ pc' = "called"
  /\ call' = [op |-> "isTrue", value |-> value, message |-> message]
  /\ outcome' = isTrue(heap, value, message)
  /\ trace' = NoTrace
  /\ UNCHANGED <<heap, earlier>>

isFalseCall(value, message) ==
  /\ pc = "ready"
  /\ pc' = "called"
  /\ call' = [op |-> "isFalse", value |-> value, message |-> message]
  /\ outcome' = isFalse(heap, value, message)
  /\ trace' = NoTrace
  /\ UNCHANGED <<heap, earlier>>

isNullCall(value, message) ==
  /\ pc = "ready"
  /\ pc' = "called"
  /\ call' = [op |-> "isNull", value |-> value, message |-> message]
  /\ outcome' = isNull(heap, value, message)
  /\ trace' = NoTrace
  /\ UNCHANGED <<heap, earlier>>

isNotNullCall(value, message) ==
  /\ pc = "ready"
  /\ pc' = "called"
  /\ call' = [op |-> "isNotNull", value |-> value, message |-> message]
  /\ outcome' = isNotNull(heap, value, message)
  /\ trace' = NoTrace
  /\ UNCHANGED <<heap, earlier>>

isUndefinedCall(value, message) ==
  /\ pc = "ready"
  /\ pc' = "called"
  /\ call' = [op |-> "isUndefined", value |-> value, message |-> message]
  /\ outcome' = isUndefined(heap, value, message)
  /\ trace' = NoTrace
  /\ UNCHANGED <<heap, earlier>>

instanceOfCall(value, construct, message) ==
  /\ pc = "ready"
  /\ pc' = "called"
  /\ call' = [op |-> "instanceOf", value |-> value, construct |-> construct,
              message |-> message]
  /\ outcome' = instanceOf(heap, value, construct, message)
  /\ trace' = NoTrace
  /\ UNCHANGED <<heap, earlier>>

includeCall(haystack, needle, message) ==
  /\ pc = "ready"
  /\ pc' = "called"
  /\ call' = [op |-> "include", haystack |-> haystack, needle |-> needle,
              message |-> message]
  /\ outcome' = include(heap, haystack, needle, message)
  /\ trace' = NoTrace
  /\ UNCHANGED <<heap, earlier>>

notIncludeCall(haystack, needle, message) ==
  /\ pc = "ready"
  /\ pc' = "called"
  /\ call' = [op |-> "notInclude", haystack |-> haystack, needle |-> needle,
              message |-> message]
  /\ outcome' = notInclude(heap, haystack, needle, message)
  /\ trace' = NoTrace
  /\ UNCHANGED <<heap, earlier>>

matchCall(value, regexp, message) ==
  /\ pc = "ready"
  /\ pc' = "called"
  /\ call' = [op |-> "match", value |-> value, regexp |-> regexp,
              message |-> message]
  /\ outcome' = match(heap, value, regexp, message)
  /\ trace' = NoTrace
  /\ UNCHANGED <<heap, earlier>>

Init ==
  /\ heap = SampleHeap
  /\ pc = "ready"
  /\ call = NoCall
  /\ outcome = Return
  /\ trace = NoTrace
  /\ earlier = NoEarlier

Next ==
  \/ \E message \in Messages : failCall(message)
  \/ \E fn \in Fns, errorLike \in Patterns, message \in Messages :
       throwsCall(fn, errorLike, message)
  \/ \E thing \in Things, keys \in KeyLists, message \in Messages :
       \/ hasAllKeysCall(thing, keys, message)
       \/ containsAllKeysCall(thing, keys, message)
  \/ \E target \in Targets, message \in Messages :
       \/ isEmptyCall(target, message)
       \/ isNotEmptyCall(target, message)
  \/ \E value \in Values, message \in Messages :
       \/ assertCall(value, message)
       \/ isOkCall(value, message)
       \/ isNotOkCall(value, message)
       \/ isTrueCall(value, message)
       \/ isFalseCall(value, message)
       \/ isNullCall(value, message)
       \/ isNotNullCall(value, message)
       \/ isUndefinedCall(value, message)
  \/ \E actual \in Values, expected \in Values, message \in Messages :
       \/ equalCall(actual, expected, message)
       \/ notEqualCall(actual, expected, message)
       \/ strictEqualCall(actual, expected, message)
       \/ notStrictEqualCall(actual, expected, message)
  \/ \E x \in Numbers, y \in Numbers, message \in Messages :
       \/ isAboveCall(x, y, message)
       \/ isAtLeastCall(x, y, message)
       \/ isBelowCall(x, y, message)
  \/ \E value \in Values, construct \in Constructs, message \in Messages :
       instanceOfCall(value, construct, message)
  \/ \E haystack \in Haystacks, needle \in Needles, message \in Messages :
       \/ includeCall(haystack, needle, message)
       \/ notIncludeCall(haystack, needle, message)
  \/ \E value \in Texts, regexp \in Patterns, message \in Messages :
       matchCall(value, regexp, message)
  \/ NextCall

Spec == Init /\ [][Next]_vars

-----------------------------------------------------------------------------
(* A test body that repeats a call *)

TwiceMessages == {Undefined, Str(Boom)}

TwiceValues == {Undefined, Num(1), Str(<<"1">>), Ref(1)}

TwiceKeyLists == {<<>>, <<"a">>}

TwicePairs == {<<Ref(1), Ref(1)>>, <<Ref(2), Ref(3)>>, <<Null, Ref(1)>>}

TwiceFns == {Fn("return", Undefined), Fn("fail", Str(Boom)), Fn("throw", Num(1))}

NextTwice ==
  \/ \E message \in TwiceMessages : failCall(message)
  \/ \E fn \in TwiceFns, errorLike \in {Str(Boom), RegExp(<<"^", "o", "o", "$">>)},
        message \in TwiceMessages :
       throwsCall(fn, errorLike, message)
  \/ \E thing \in {Ref(2), Null}, keys \in TwiceKeyLists, message \in TwiceMessages :
       \/ hasAllKeysCall(thing, keys, message)
       \/ containsAllKeysCall(thing, keys, message)
  \/ \E target \in {Str(<<>>), Ref(7), Ref(9), Num(1)}, message \in TwiceMessages :
       \/ isEmptyCall(target, message)
       \/ isNotEmptyCall(target, message)
  \/ \E value \in TwiceValues, message \in TwiceMessages :
       \/ assertCall(value, message)
       \/ isOkCall(value, message)
       \/ isNotOkCall(value, message)
       \/ isTrueCall(value, message)
       \/ isFalseCall(value, message)
       \/ isNullCall(value, message)
       \/ isNotNullCall(value, message)
       \/ isUndefinedCall(value, message)
  \/ \E actual \in TwiceValues, expected \in {Num(1), Ref(1)}, message \in TwiceMessages :
       \/ equalCall(actual, expected, message)
       \/ notEqualCall(actual, expected, message)
       \/ strictEqualCall(actual, expected, message)
       \/ notStrictEqualCall(actual, expected, message)
  \/ \E x \in Numbers, message \in TwiceMessages :
       \/ isAboveCall(x, 1, message)
       \/ isAtLeastCall(x, 1, message)
       \/ isBelowCall(x, 1, message)
  \/ \E value \in TwiceValues, message \in TwiceMessages :
       instanceOfCall(value, "Object", message)
  \/ \E needle \in {Num(1), NaN}, message \in TwiceMessages :
       \/ includeCall(Ref(7), needle, message)
       \/ notIncludeCall(Ref(7), needle, message)
  \/ \E value \in {Str(<<>>), Str(Boom)}, message \in TwiceMessages :
       matchCall(value, Str(<<"o", "o">>), message)
  \/ \E args \in TwicePairs, message \in TwiceMessages :
       \/ deepEqualCall(args, message)
       \/ notDeepEqualCall(args, message)
  \/ NextCall
  \/ Remember

SpecTwice == Init /\ [][NextTwice]_vars

-----------------------------------------------------------------------------
(* Structural equality against its definition *)

KeySet(h, v) == {OwnKeys(h, v)[i] : i \in 1..Len(OwnKeys(h, v))}

\* Same number of own enumerable keys, and every key of a is a key of b
\* under which the helper, called one frame deeper, returns true.
SameKeysAndValues(h, a, b) ==
  /\ Cardinality(KeySet(h, a)) = Cardinality(KeySet(h, b))
  /\ \A k \in KeySet(h, a) :
       /\ k \in KeySet(h, b)
       /\ _deepEqual(h, Get(h, a, k), Get(h, b, k), MaxStack - 1).value = "true"

DistinctContainers ==
  /\ pc = "called"
  /\ call.op = "deepEqual"
  /\ call.actual.t = "object"
  /\ call.expected.t = "object"
  /\ call.actual # call.expected

BothPrimitive ==
  /\ pc = "called"
  /\ call.op = "deepEqual"
  /\ IsPrimitive(call.actual)
  /\ IsPrimitive(call.expected)

\* C6, as claimed: on primitives the helper returns true exactly when the
\* two are identical under ===, at top level and under a key.
C6_PrimitivesByIdentity ==
  /\ BothPrimitive =>
       ((trace.value = "true") <=> StrictEquals(call.actual, call.expected))
  /\ DistinctContainers =>
       \A k \in KeySet(heap, call.actual) \cap KeySet(heap, call.expected) :
         LET x == Get(heap, call.actual, k)
             y == Get(heap, call.expected, k)
         IN (IsPrimitive(x) /\ IsPrimitive(y)) =>
              ((_deepEqual(heap, x, y, MaxStack - 1).value = "true")
                 <=> StrictEquals(x, y))

SameArgument ==
  /\ pc = "called"
  /\ call.op = "deepEqual"
  /\ call.actual = call.expected

\* C7, as claimed: deepEqual(x, x) passes for every x, the helper returning
\* from the identity test before it counts a key or recurses.
C7_IdentityShortCircuit ==
  SameArgument =>
    /\ outcome = Return
    /\ trace = Result("true", 0, 1)

\* C7, amended: deepEqual(x, x) passes for every x; for every x but NaN the
\* helper returns from the identity test before it counts a key or
\* recurses, and for NaN, which is not identical to itself, it counts the
\* keys of both arguments, finds none, and returns true without recursing.
C7_SameArgumentPasses ==
  SameArgument =>
    /\ outcome = Return
    /\ trace = IF call.actual.t = "NaN" THEN Result("true", 2, 1)
               ELSE Result("true", 0, 1)

\* deepEqual(x, x) has passed for a container that holds itself.
C7_Witness ==
  /\ SameArgument
  /\ call.actual.t = "object"
  /\ \E i \in 1..Len(heap[call.actual.n].props) :
       heap[call.actual.n].props[i].v = call.actual
  /\ outcome = Return
  /\ trace.keys = 0

-----------------------------------------------------------------------------
(* The failure primitive and throws *)

FailCalled == pc = "called" /\ call.op = "fail"

\* C1, as claimed: fail(message) throws for every input, an omitted or an
\* empty message included, and the description of the failure is identical
\* to the message passed in.
C1_DescriptionIsMessage ==
  FailCalled =>
    /\ outcome.kind = "throw"
    /\ StrictEquals(Str(outcome.message), call.message)

\* C1, amended: fail(message) throws an Error for every input; its
\* description is the message passed in, the empty string included, and is
\* the empty string when the message is omitted.
C1_FailAlwaysThrows ==
  FailCalled =>
    /\ outcome.kind = "throw"
    /\ outcome.name = "Error"
    /\ call.message.t = "string" => outcome.message = call.message.s
    /\ call.message = Undefined => outcome.message = <<>>

\* fail("") has thrown a failure with the empty description.
C1_Witness ==
  /\ FailCalled
  /\ call.message = Str(<<>>)
  /\ outcome = Throw("Error", <<>>)

ThrowsCalled(does) == pc = "called" /\ call.op = "throws" /\ call.fn.does = does

NoThrowText == <<"Expected function to throw">>

\* C2: when fn throws an Error, throws passes if the error's message matches
\* the pattern, and otherwise fails with a failure that names the actual
\* message and the expected pattern, not with the failure for a function
\* that did not throw.
C2_ErrorMatchedAgainstPattern ==
  ThrowsCalled("fail") =>
    LET actual == ErrorMessage(call.fn.arg) IN
    IF Matches(actual, call.errorLike)
    THEN outcome = Return
    ELSE /\ outcome.kind = "throw"
         /\ outcome.name = "Error"
         /\ outcome.message # NoThrowText
         /\ Contains(outcome.message, actual)
         /\ Contains(outcome.message, Interpolate(heap, call.errorLike))

\* throws(() => fail("boom"), "nope") has failed reporting the mismatch.
C2_Witness ==
  /\ ThrowsCalled("fail")
  /\ call.fn.arg = Str(Boom)
  /\ call.errorLike = Str(<<"n", "o", "p", "e">>)
  /\ outcome.kind = "throw"
  /\ Contains(outcome.message, Boom)

\* C3: when fn returns normally, throws fails for every pattern, one that
\* matches everything included, with the failure for a function that did
\* not throw.
C3_ReturnFails ==
  ThrowsCalled("return") => outcome = Throw("Error", NoThrowText)

\* throws(() => {}, /.*/) has failed.
C3_Witness ==
  /\ ThrowsCalled("return")
  /\ call.errorLike = RegExp(<<".", "*">>)
  /\ outcome.kind = "throw"

\* C4: when fn throws a value that is no Error, throws passes for every
\* pattern.
C4_NonErrorPasses ==
  ThrowsCalled("throw") => outcome = Return

\* throws(() => { throw "boom" }, "nope") has passed.
C4_Witness ==
  /\ ThrowsCalled("throw")
  /\ call.fn.arg = Str(Boom)
  /\ call.errorLike = Str(<<"n", "o", "p", "e">>)
  /\ outcome = Return

-----------------------------------------------------------------------------
(* Key sets *)

Members(keys) == {keys[i] : i \in 1..Len(keys)}

KeysCalled(op) == pc = "called" /\ call.op = op /\ call.thing.t = "object"

\* C8, as claimed: hasAllKeys passes exactly when the set of the object's
\* own keys equals the set of the given keys, for every list of keys.
C8_ExactKeySet ==
  KeysCalled("hasAllKeys") =>
    ((outcome = Return) <=> (KeySet(heap, call.thing) = Members(call.keys)))

\* C9: containsAllKeys passes exactly when every given key is an own key of
\* the object.
C9_SupersetOfKeys ==
  KeysCalled("containsAllKeys") =>
    ((outcome = Return) <=> (Members(call.keys) \subseteq KeySet(heap, call.thing)))

\* containsAllKeys({a: 1, b: 2}, ["a"]) has passed.
C9_Witness ==
  /\ KeysCalled("containsAllKeys")
  /\ KeySet(heap, call.thing) = {"a", "b"}
  /\ call.keys = <<"a">>
  /\ outcome = Return

-----------------------------------------------------------------------------
(* Emptiness *)

EmptinessCalled == pc = "called" /\ call.op \in {"isEmpty", "isNotEmpty"}

IsSequenceLike(h, target) ==
  target.t = "string" \/ (target.t = "object" /\ h[target.n].kind \in {"Array", "NodeList"})

IsCollection(h, target) ==
  target.t = "object" /\ h[target.n].kind \in {"Map", "Set"}

IsFallback(o) ==
  /\ o.kind = "throw"
  /\ o.name = "Error"
  /\ o.message[1] = "Didn't know how to check if "

\* C10: isEmpty passes a string or list exactly when its length is 0 and a
\* map or set exactly when its size is 0, and fails any other target with
\* the failure for a type it cannot judge; isNotEmpty does the same with
\* the length and size tests negated.
C10_DispatchOnShape ==
  EmptinessCalled =>
    LET wantEmpty == call.op = "isEmpty" IN
    CASE IsSequenceLike(heap, call.target) ->
           /\ (outcome = Return) <=> ((Length(heap, call.target) = 0) <=> wantEmpty)
           /\ ~IsFallback(outcome)
      [] IsCollection(heap, call.target) ->
           /\ (outcome = Return) <=> ((heap[call.target.n].size = 0) <=> wantEmpty)
           /\ ~IsFallback(outcome)
      [] OTHER -> IsFallback(outcome)

\* isEmpty of a map with an entry has failed, and not with the fallback.
C10_Witness ==
  /\ EmptinessCalled
  /\ call.op = "isEmpty"
  /\ IsCollection(heap, call.target)
  /\ heap[call.target.n].size > 0
  /\ outcome.kind = "throw"
  /\ ~IsFallback(outcome)

-----------------------------------------------------------------------------
(* Message selection *)

\* The assertions that compare, test or inspect something; fail is the
\* primitive they all end in.
MessageOps ==
  {"assert", "isOk", "isNotOk", "equal", "notEqual", "strictEqual",
   "notStrictEqual", "isAbove", "isAtLeast", "isBelow", "isTrue", "isFalse",
   "isNull", "isNotNull", "isUndefined", "instanceOf", "include", "notInclude",
   "match", "hasAllKeys", "containsAllKeys", "throws", "isEmpty", "isNotEmpty"}

Failed(o) == o.kind = "throw" /\ o.name = "Error"

\* The first words of the descriptions the assertions make up themselves.
IsSynthesized(text) ==
  /\ Len(text) > 0
  /\ text[1] \in {"Expected ", "Expected error message ",
                  "Expected function to throw", "Didn't know how to check if "}

\* C11: for every assertion, isEmpty, isNotEmpty and throws included, a
\* failing call carries the caller's message when that message is truthy and
\* a synthesized default when it is falsy or omitted.
C11_MessageSelected ==
  (pc = "called" /\ call.op \in MessageOps /\ Failed(outcome)) =>
    IF Truthy(call.message) THEN outcome.message = call.message.s
    ELSE IsSynthesized(outcome.message)

\* The same for the assertions that declare a message parameter.
C11_DeclaredMessageSelected ==
  (pc = "called" /\ call.op \in MessageOps \ {"throws", "isEmpty", "isNotEmpty"}
     /\ Failed(outcome)) =>
    IF Truthy(call.message) THEN outcome.message = call.message.s
    ELSE IsSynthesized(outcome.message)

-----------------------------------------------------------------------------
(* Complements *)

Passed(o) == o.kind = "return"

Called(op) == pc = "called" /\ call.op = op

\* C12: of equal and notEqual, of strictEqual and notStrictEqual, and of
\* isOk and isNotOk, exactly one passes and the other fails, on the same
\* arguments and message, whatever they are.
C12_SimplePairsComplement ==
  /\ Called("equal") =>
       /\ Passed(outcome) \/ Failed(outcome)
       /\ Passed(outcome)
            <=> Failed(notEqual(heap, call.actual, call.expected, call.message))
  /\ Called("notEqual") =>
       /\ Passed(outcome) \/ Failed(outcome)
       /\ Passed(outcome)
            <=> Failed(equal(heap, call.actual, call.expected, call.message))
  /\ Called("strictEqual") =>
       /\ Passed(outcome) \/ Failed(outcome)
       /\ Passed(outcome)
            <=> Failed(notStrictEqual(heap, call.actual, call.expected, call.message))
  /\ Called("notStrictEqual") =>
       /\ Passed(outcome) \/ Failed(outcome)
       /\ Passed(outcome)
            <=> Failed(strictEqual(heap, call.actual, call.expected, call.message))
  /\ Called("isOk") =>
       /\ Passed(outcome) \/ Failed(outcome)
       /\ Passed(outcome) <=> Failed(isNotOk(heap, call.value, call.message))
  /\ Called("isNotOk") =>
       /\ Passed(outcome) \/ Failed(outcome)
       /\ Passed(outcome) <=> Failed(isOk(heap, call.value, call.message))

\* equal has passed a number and the string that spells it, which notEqual
\* therefore fails.
C12_Witness ==
  /\ Called("equal")
  /\ call.actual = Num(1)
  /\ call.expected = Str(<<"1">>)
  /\ Passed(outcome)
  /\ Failed(notEqual(heap, call.actual, call.expected, call.message))

\* The same target handed to the other emptiness assertion.
OtherEmptiness ==
  IF call.op = "isEmpty" THEN isNotEmpty(heap, call.target)
  ELSE isEmpty(heap, call.target)

\* C13: isNotEmpty is the complement of isEmpty, for a target of any shape:
\* one of the two passes and the other fails.
C13_EmptinessComplement ==
  EmptinessCalled => (Passed(outcome) <=> ~Passed(OtherEmptiness))

\* C13, amended: for a string, list, map or set exactly one of isEmpty and
\* isNotEmpty passes and the other fails for being (not) empty; for any
\* other target both fail, with the failure for a type they cannot judge.
C13_ComplementOnKnownShapes ==
  EmptinessCalled =>
    IF IsSequenceLike(heap, call.target) \/ IsCollection(heap, call.target)
    THEN /\ Passed(outcome) <=> ~Passed(OtherEmptiness)
         /\ ~IsFallback(outcome) /\ ~IsFallback(OtherEmptiness)
         /\ Passed(outcome) \/ Failed(outcome)
    ELSE IsFallback(outcome) /\ IsFallback(OtherEmptiness)

\* isNotEmpty of a number has failed, as isEmpty of it does.
C13_Witness ==
  /\ Called("isNotEmpty")
  /\ call.target = Num(1)
  /\ IsFallback(outcome)
  /\ IsFallback(isEmpty(heap, call.target))

DeepCalled == pc = "called" /\ call.op \in {"deepEqual", "notDeepEqual"}

\* The same pair handed to the other structural assertion.
OtherDeep ==
  IF call.op = "deepEqual"
  THEN notDeepEqual(heap, call.actual, call.expected, call.message)
  ELSE deepEqual(heap, call.actual, call.expected, call.message)

\* C14: notDeepEqual passes exactly when deepEqual does not return normally,
\* for every pair, a null, undefined or primitive against a container
\* included.
C14_DeepComplement ==
  /\ Called("notDeepEqual") => (Passed(outcome) <=> ~Passed(OtherDeep))
  /\ Called("deepEqual") => (~Passed(outcome) <=> Passed(OtherDeep))

\* C14, amended: where the helper returns, deepEqual passes on true and
\* notDeepEqual on false, and the other of the two fails; where the helper
\* throws, both assertions throw that error and neither passes.
C14_ComplementWhereHelperReturns ==
  DeepCalled =>
    CASE trace.value = "true" ->
           /\ Passed(outcome) <=> call.op = "deepEqual"
           /\ Failed(outcome) <=> call.op = "notDeepEqual"
           /\ Passed(outcome) <=> Failed(OtherDeep)
      [] trace.value = "false" ->
           /\ Passed(outcome) <=> call.op = "notDeepEqual"
           /\ Failed(outcome) <=> call.op = "deepEqual"
           /\ Passed(outcome) <=> Failed(OtherDeep)
      [] OTHER ->
           /\ trace.value \in {"TypeError", "RangeError"}
           /\ outcome = Throw(trace.value, <<trace.value>>)
           /\ OtherDeep = outcome

\* notDeepEqual of null and a container has thrown a TypeError.
C14_Witness ==
  /\ Called("notDeepEqual")
  /\ call.actual = Null
  /\ call.expected = Ref(1)
  /\ outcome.kind = "throw"
  /\ outcome.name = "TypeError"
  /\ ~Passed(OtherDeep)

-----------------------------------------------------------------------------
(* No hidden state *)

Repeated == pc = "called" /\ earlier.call = call

-----------------------------------------------------------------------------
(* Loose and strict equality *)

\* a is a number and b the string that spells it.
Spells(a, b) == a.t = "number" /\ b.t = "string" /\ b.s = <<IndexKeys[a.n + 1]>>

\* a and b are one value of one type, with nothing converted.
Identical(a, b) == a = b /\ a.t # "NaN"

\* C16: equal(a, a, _) passes for every a; strictEqual passes exactly when
\* its arguments are identical without coercion; a number and the string
\* spelling it pass equal and fail strictEqual.
C16_EqualReflexive ==
  /\ Called("equal") =>
       /\ call.actual = call.expected => Passed(outcome)
       /\ Spells(call.actual, call.expected) => Passed(outcome)
  /\ Called("strictEqual") =>
       /\ Passed(outcome) <=> Identical(call.actual, call.expected)
       /\ Spells(call.actual, call.expected) => Failed(outcome)

\* C16, amended: equal(a, a, _) passes for every a but NaN and fails for
\* NaN; the rest as claimed.
C16_EqualReflexiveButNaN ==
  /\ Called("equal") =>
       /\ call.actual = call.expected => (Passed(outcome) <=> call.actual # NaN)
       /\ call.actual = call.expected => (Failed(outcome) <=> call.actual = NaN)
       /\ Spells(call.actual, call.expected) => Passed(outcome)
  /\ Called("strictEqual") =>
       /\ Passed(outcome) <=> Identical(call.actual, call.expected)
       /\ Failed(outcome) <=> ~Identical(call.actual, call.expected)
       /\ Spells(call.actual, call.expected) => Failed(outcome)

\* equal of NaN and NaN has failed.
C16_Witness ==
  /\ Called("equal")
  /\ call.actual = NaN
  /\ call.expected = NaN
  /\ Failed(outcome)

-----------------------------------------------------------------------------
(* Truthiness, bounds and exact values *)

\* The values JavaScript holds falsy.
FalsyValues == {Undefined, Null, Bool(FALSE), Num(0), NaN, Str(<<>>)}

\* C17: assert and isOk pass a truthy value and fail a falsy one, each as
\* the other does; isNotOk passes exactly the falsy values.
C17_Truthiness ==
  /\ Called("assert") =>
       /\ Passed(outcome) <=> call.value \notin FalsyValues
       /\ Failed(outcome) <=> call.value \in FalsyValues
       /\ Passed(outcome) <=> Passed(isOk(heap, call.value, call.message))
  /\ Called("isOk") =>
       /\ Passed(outcome) <=> call.value \notin FalsyValues
       /\ Failed(outcome) <=> call.value \in FalsyValues
       /\ Passed(outcome) <=> Passed(assert(heap, call.value, call.message))
  /\ Called("isNotOk") =>
       /\ Passed(outcome) <=> call.value \in FalsyValues
       /\ Failed(outcome) <=> call.value \notin FalsyValues

\* isOk of the number 0 has failed.
C17_Witness ==
  /\ Called("isOk")
  /\ call.value = Num(0)
  /\ Failed(outcome)
  /\ Failed(assert(heap, call.value, call.message))

ExactOps == {"isTrue", "isFalse", "isNull", "isNotNull", "isUndefined"}

-----------------------------------------------------------------------------
(* The fallback of the emptiness checks *)

\* The target has a shape isEmpty and isNotEmpty test, and the length or
\* size test of the assertion called succeeds on it.
OwnTestSucceeds ==
  LET wantEmpty == call.op = "isEmpty" IN
  \/ /\ IsSequenceLike(heap, call.target)
     /\ (Length(heap, call.target) = 0) <=> wantEmpty
  \/ /\ IsCollection(heap, call.target)
     /\ (heap[call.target.n].size = 0) <=> wantEmpty

\* C20: in isEmpty and isNotEmpty the path of a target of recognized shape
\* whose length or size test succeeded goes on to the fallback failure.
C20_FallbackAfterPass ==
  (EmptinessCalled /\ OwnTestSucceeds) => IsFallback(outcome)

\* C20, amended: no path does.  A target of recognized shape returns when
\* its test succeeds and fails for being (not) empty when it does not; the
\* fallback failure is that of the targets of no recognized shape, and of
\* them only.
C20_FallbackOnlyForOtherShapes ==
  EmptinessCalled =>
    /\ OwnTestSucceeds => outcome = Return
    /\ IsFallback(outcome) <=>
         ~(IsSequenceLike(heap, call.target) \/ IsCollection(heap, call.target))

\* isEmpty of an empty map has returned.
C20_Witness ==
  /\ Called("isEmpty")
  /\ IsCollection(heap, call.target)
  /\ OwnTestSucceeds
  /\ outcome = Return

-----------------------------------------------------------------------------
(* Control flow of throws *)

\* How often the statement was executed in the call.
Executed(statement) ==
  Cardinality({i \in 1..Len(trace.steps) : trace.steps[i] = statement})

\* The failure is one throws signalled itself.
IsThrowsFailure(o) ==
  /\ Failed(o)
  /\ o.message = NoThrowText \/ o.message[1] = "Expected error message "

\* C21: one call of throws calls fn exactly once and signals at most one
\* failure; what fn raises never reaches the caller of throws; the failure
\* for a function that did not throw is signalled only where fn returned,
\* so that after a mismatch the caller gets the mismatch failure.
C21_ThrowsControlFlow ==
  Called("throws") =>
    LET fails == Executed("fail mismatch") + Executed("fail no throw")
        mismatch == /\ call.fn.does = "fail"
                    /\ ~Matches(ErrorMessage(call.fn.arg), call.errorLike)
    IN /\ Executed("fn()") = 1
       /\ fails <= 1
       /\ fails = 1 <=> Failed(outcome)
       /\ fails = 0 <=> outcome = Return
       /\ outcome = Return \/ IsThrowsFailure(outcome)
       /\ call.fn.does # "return" => outcome # RunFn(call.fn)
       /\ Executed("fail no throw") = 1 <=> call.fn.does = "return"
       /\ outcome = Throw("Error", NoThrowText) <=> call.fn.does = "return"
       /\ mismatch =>
            /\ trace.steps[Len(trace.steps)] = "fail mismatch"
            /\ Executed("fail no throw") = 0
            /\ Failed(outcome)
            /\ outcome.message[1] = "Expected error message "

\* throws(() => fail("boom"), "nope") has signalled the mismatch, once.
C21_Witness ==
  /\ Called("throws")
  /\ call.fn = Fn("fail", Str(Boom))
  /\ call.errorLike = Str(<<"n", "o", "p", "e">>)
  /\ Executed("fn()") = 1
  /\ Executed("fail mismatch") = 1
  /\ Executed("fail no throw") = 0
  /\ outcome.message[1] = "Expected error message "

-----------------------------------------------------------------------------
(* Termination of structural equality *)

Min(a, b) == IF a <= b THEN a ELSE b

RECURSIVE MaxOf(_)
MaxOf(S) ==
  IF S = {} THEN 0
  ELSE LET x == CHOOSE y \in S : TRUE IN Max(x, MaxOf(S \ {x}))

RECURSIVE Height(_, _, _)
\* The values on the longest path from v down, v and the leaf included, as
\* far as `fuel` containers from v on.
Height(h, v, fuel) ==
  IF IsPrimitive(v) \/ fuel = 0 THEN 1
  ELSE 1 + MaxOf({Height(h, h[v.n].props[i].v, fuel - 1) :
                    i \in 1..Len(h[v.n].props)})

\* A path of more containers than there are objects passes one twice.
PathBound == Cardinality(DOMAIN heap)

Depth(v) == Height(heap, v, PathBound + 1)

Cyclic(v) == Depth(v) > PathBound + 1

\* C22: on structures without reference cycles the helper terminates, and
\* its recursion is no deeper than either structure; nothing else bounds
\* it, so it runs out of stack only on two structures that both contain a
\* cycle.
C22_TerminatesWithoutCycles ==
  DeepCalled =>
    /\ (~Cyclic(call.actual) /\ ~Cyclic(call.expected)) =>
         /\ trace.value \in {"true", "false", "TypeError"}
         /\ trace.depth <= Min(Depth(call.actual), Depth(call.expected))
    /\ trace.value = "RangeError" => (Cyclic(call.actual) /\ Cyclic(call.expected))

\* Two acyclic containers have been compared three frames deep, as deep as
\* the shallower of them.
C22_Witness ==
  /\ DeepCalled
  /\ DistinctContainers
  /\ ~Cyclic(call.actual)
  /\ ~Cyclic(call.expected)
  /\ Min(Depth(call.actual), Depth(call.expected)) = 3
  /\ trace.depth = 3

\* Two containers that both contain a cycle have exhausted the stack.
C22_CyclicOverflow ==
  /\ DeepCalled
  /\ Cyclic(call.actual)
  /\ Cyclic(call.expected)
  /\ trace.value = "RangeError"

-----------------------------------------------------------------------------
(* Symmetry of structural equality *)

\* Every object is a plain key-value container.
AllPlain == \A i \in DOMAIN heap : heap[i].kind = "Object"

\* The helper called with the two arguments the other way round.
Swapped == _deepEqual(heap, call.expected, call.actual, MaxStack)

\* C23: on acyclic values built from plain containers and primitive leaves
\* the helper ends the same way (true, false, or the same runtime error)
\* whichever argument comes first, and so deepEqual(a, b) passes exactly
\* when deepEqual(b, a) does.
C23_Symmetric ==
  (DistinctContainers /\ AllPlain /\ ~Cyclic(call.actual) /\ ~Cyclic(call.expected)) =>
    /\ Swapped.value = trace.value
    /\ Passed(outcome)
         <=> Passed(deepEqual(heap, call.expected, call.actual, call.message))

====
